---- MODULE Spec2Model ----
(***************************************************************************)
(* Model of the todo-project task registry (todo-app/src/app/todo.store.ts)*)
(* and of the timeline projection (todo-app/src/app/app.ts).               *)
(*                                                                         *)
(* Representation                                                          *)
(*   - a string is a sequence of one-character strings, so that trim() and *)
(*     localeCompare() are computed and not assumed;                       *)
(*   - an optional value is <<>> (undefined) or <<v>>;                     *)
(*   - a raw JavaScript number is a record: [kind |-> "finite", tenths |->  *)
(*     t] is the number t/10, the other kinds are NaN, Infinity and        *)
(*     -Infinity; a stored (normalized) priority is an integer;            *)
(*   - a Partial<...> object is a record that has only the fields present. *)
(***************************************************************************)
EXTENDS Integers, Sequences, FiniteSets, TLC

VARIABLES
    tasks,          \* TodoStore._tasks: the array of TodoTask records
    startMinutes,   \* TodoStore._startMinutes
    nextId,         \* source of makeId(): ids already handed out are < nextId
    clock,          \* Date.now(), never decreasing
    call,           \* the operation that has just run, with its arguments;
                    \* [op |-> "idle"] once control is back with the caller
    before          \* _tasks and _startMinutes when that operation was called

vars == <<tasks, startMinutes, nextId, clock, call, before>>

\* The part of the state the operations are about.
Snapshot == [tasks |-> tasks, startMinutes |-> startMinutes]

---------------------------------------------------------------------------
(* Bounds of the model *)

\* Live tasks at any time, and ids the id source hands out in one run.
MaxTasks == 3
\* Largest whole priority a caller passes.
MaxPriority == 3
\* Tasks in one run, the restored ones included, where the fields of the tasks
\* vary.
MaxFieldTasks == 2
\* Records in the stored array read by restore.
MaxStored == MaxTasks - 1
\* Ids 1..MaxStored occur in storage; makeId() hands out FirstNewId, FirstNewId + 1, ...
FirstNewId == MaxStored + 1

---------------------------------------------------------------------------
(* Program constants *)

DEFAULT_WORK_MINUTES == 60
DEFAULT_REST_MINUTES == 15
MIN_PRIORITY == 1
dayMinutes == 24 * 60

---------------------------------------------------------------------------
(* JavaScript values *)

Undefined == <<>>
Some(v) == <<v>>
IsDefined(o) == o # <<>>
Get(o) == o[1]

Finite(t) == [kind |-> "finite", tenths |-> t]
Whole(n) == Finite(10 * n)
NaN == [kind |-> "nan", tenths |-> 0]
PosInfinity == [kind |-> "inf", tenths |-> 0]
NegInfinity == [kind |-> "ninf", tenths |-> 0]
Null == [kind |-> "null", tenths |-> 0]

\* Number(v) for a number or null: Number(null) is 0.
Number(r) == IF r.kind = "null" THEN Finite(0) ELSE r

\* rec.f for a field that may be missing: <<>> when it is.
Field(rec, f) == IF f \in DOMAIN rec THEN Some(rec[f]) ELSE Undefined

\* v === null || v === undefined, for an optional raw number.
IsNullish(o) == o = Undefined \/ Get(o).kind = "null"

\* Number.isFinite
IsFinite(r) == r.kind = "finite"

\* Math.round on a finite number t/10: the nearest integer, halves towards +Infinity.
Round(t) == (t + 5) \div 10

Max(a, b) == IF a >= b THEN a ELSE b
Min(a, b) == IF a <= b THEN a ELSE b

\* The literals 'Rest time' and 'Untitled task'.
RestTime == <<"R", "e", "s", "t", " ", "t", "i", "m", "e">>
UntitledTask == <<"U", "n", "t", "i", "t", "l", "e", "d", " ", "t", "a", "s", "k">>

\* String.prototype.trim on the characters of the model: drops leading and
\* trailing blanks.
RECURSIVE TrimLeft(_)
TrimLeft(s) ==
    IF s = <<>> THEN <<>>
    ELSE IF Head(s) = " " THEN TrimLeft(Tail(s))
    ELSE s

RECURSIVE TrimRight(_)
TrimRight(s) ==
    IF s = <<>> THEN <<>>
    ELSE IF s[Len(s)] = " " THEN TrimRight(SubSeq(s, 1, Len(s) - 1))
    ELSE s

Trim(s) == TrimRight(TrimLeft(s))

\* Collation order of the characters that occur in titles of the model.
Alphabet ==
    <<" ", "a", "A", "B", "d", "e", "i", "k", "l", "m", "n", "R", "s", "t", "T", "U">>

CharRank(c) == CHOOSE i \in 1..Len(Alphabet) : Alphabet[i] = c

\* String.prototype.localeCompare: negative, zero or positive.
RECURSIVE localeCompare(_, _)
localeCompare(a, b) ==
    IF a = <<>> /\ b = <<>> THEN 0
    ELSE IF a = <<>> THEN -1
    ELSE IF b = <<>> THEN 1
    ELSE IF Head(a) = Head(b) THEN localeCompare(Tail(a), Tail(b))
    ELSE CharRank(Head(a)) - CharRank(Head(b))

---------------------------------------------------------------------------
(* Helpers on arrays *)

Range(s) == {s[i] : i \in 1..Len(s)}

\* tasks.find(task => task.id === id): <<>> when no task has the id, else
\* <<the first task that has it>>.
findById(ts, id) ==
    LET hits == {i \in 1..Len(ts) : ts[i].id = id}
    IN  IF hits = {} THEN Undefined
        ELSE Some(ts[CHOOSE i \in hits : \A j \in hits : i <= j])

IdsOf(ts) == {ts[i].id : i \in 1..Len(ts)}

\* ts.map(task => task.id)
idList(ts) == [i \in 1..Len(ts) |-> ts[i].id]

---------------------------------------------------------------------------
(* TodoStore: normalizers *)

\* normalizePriority without the lower bound MIN_PRIORITY.
normalizePriority_Unclamped(priority) ==
    LET parsed == Number(priority)
    IN  IF ~IsFinite(parsed) THEN MIN_PRIORITY ELSE Round(parsed.tenths)

normalizePriority(priority) ==
    LET parsed == Number(priority)
    IN  IF ~IsFinite(parsed) THEN MIN_PRIORITY
        ELSE Max(MIN_PRIORITY, Round(parsed.tenths))

\* value is optional (<<>> is undefined) and may be null; the result is
\* optional too.
normalizeMinutes(value, isRest) ==
    IF IsNullish(value) THEN Undefined
    ELSE LET parsed == Number(Get(value))
         IN  IF ~IsFinite(parsed) \/ parsed.tenths <= 0
             THEN Some(IF isRest THEN DEFAULT_REST_MINUTES ELSE DEFAULT_WORK_MINUTES)
             ELSE Some(Round(parsed.tenths))

\* s.trim() || undefined, for an optional string.
trimOrUndefined(o) ==
    IF IsDefined(o) /\ Trim(Get(o)) # <<>> THEN Some(Trim(Get(o))) ELSE Undefined

\* getTaskMinutes that takes an estimate of 0 as given.
getTaskMinutes_NonNegative(task) ==
    IF IsDefined(task.estimateMinutes) /\ Get(task.estimateMinutes) >= 0
    THEN Get(task.estimateMinutes)
    ELSE IF task.isRest THEN DEFAULT_REST_MINUTES ELSE DEFAULT_WORK_MINUTES

getTaskMinutes(task) ==
    IF IsDefined(task.estimateMinutes) /\ Get(task.estimateMinutes) > 0
    THEN Get(task.estimateMinutes)
    ELSE IF task.isRest THEN DEFAULT_REST_MINUTES ELSE DEFAULT_WORK_MINUTES

---------------------------------------------------------------------------
(* TodoStore: priority shifts *)

\* shiftForInsert that leaves a task at the inserted priority where it is.
shiftForInsert_Strict(ts, priority) ==
    [i \in 1..Len(ts) |->
        IF ts[i].priority > priority
        THEN [ts[i] EXCEPT !.priority = @ + 1]
        ELSE ts[i]]

shiftForInsert(ts, priority) ==
    [i \in 1..Len(ts) |->
        IF ts[i].priority >= priority
        THEN [ts[i] EXCEPT !.priority = @ + 1]
        ELSE ts[i]]

\* shiftOthers that leaves a task at the new priority where it is.
shiftOthers_OpenRange(ts, id, oldPriority, newPriority) ==
    IF newPriority > oldPriority
    THEN [i \in 1..Len(ts) |->
            IF ts[i].id = id THEN ts[i]
            ELSE IF ts[i].priority > oldPriority /\ ts[i].priority < newPriority
            THEN [ts[i] EXCEPT !.priority = @ - 1]
            ELSE ts[i]]
    ELSE [i \in 1..Len(ts) |->
            IF ts[i].id = id THEN ts[i]
            ELSE IF ts[i].priority > newPriority /\ ts[i].priority < oldPriority
            THEN [ts[i] EXCEPT !.priority = @ + 1]
            ELSE ts[i]]

\* The two forEach loops of shiftForUpdate: the tasks other than id between
\* the old and the new priority move by one.
shiftOthers(ts, id, oldPriority, newPriority) ==
    IF newPriority > oldPriority
    THEN [i \in 1..Len(ts) |->
            IF ts[i].id = id THEN ts[i]
            ELSE IF ts[i].priority > oldPriority /\ ts[i].priority <= newPriority
            THEN [ts[i] EXCEPT !.priority = @ - 1]
            ELSE ts[i]]
    ELSE [i \in 1..Len(ts) |->
            IF ts[i].id = id THEN ts[i]
            ELSE IF ts[i].priority >= newPriority /\ ts[i].priority < oldPriority
            THEN [ts[i] EXCEPT !.priority = @ + 1]
            ELSE ts[i]]

\* shiftForUpdate that makes room at the new priority also when no task has
\* the id.
shiftForUpdate_NoTargetCheck(ts, id, patch) ==
    LET target == findById(ts, id)
    IN  IF "priority" \notin DOMAIN patch THEN ts
        ELSE IF ~IsDefined(target)
        THEN shiftForInsert(ts, normalizePriority(patch.priority))
        ELSE LET newPriority == normalizePriority(patch.priority)
                 oldPriority == Get(target).priority
             IN  IF newPriority = oldPriority THEN ts
                 ELSE shiftOthers(ts, id, oldPriority, newPriority)

shiftForUpdate(ts, id, patch) ==
    LET target == findById(ts, id)
    IN  IF ~IsDefined(target) \/ "priority" \notin DOMAIN patch THEN ts
        ELSE LET newPriority == normalizePriority(patch.priority)
                 oldPriority == Get(target).priority
             IN  IF newPriority = oldPriority THEN ts
                 ELSE shiftOthers(ts, id, oldPriority, newPriority)

---------------------------------------------------------------------------
(* TodoStore: the functions passed to _tasks.update *)

\* The task addTask builds from a draft, an id and a timestamp.
newTask(draft, id, now) ==
    LET title == IF Trim(draft.title) # <<>> THEN Trim(draft.title)
                 ELSE IF draft.isRest THEN RestTime ELSE UntitledTask
    IN  [id |-> id,
         title |-> title,
         description |-> trimOrUndefined(Field(draft, "description")),
         priority |-> normalizePriority(draft.priority),
         estimateMinutes |-> normalizeMinutes(Field(draft, "estimateMinutes"), draft.isRest),
         status |-> draft.status,
         isRest |-> draft.isRest,
         createdAt |-> now]

addTask(ts, draft, id, now) ==
    LET task == newTask(draft, id, now)
        updated == shiftForInsert(ts, task.priority)
    IN  Append(updated, task)

\* patchTask that takes a patch without a status as a patch to uncompleted.
patchTask_ResetStatus(task, patch) ==
    LET isRest == IF "isRest" \in DOMAIN patch THEN patch.isRest ELSE task.isRest
        title ==
            IF "title" \in DOMAIN patch
            THEN IF Trim(patch.title) # <<>> THEN Trim(patch.title)
                 ELSE IF isRest THEN RestTime ELSE task.title
            ELSE task.title
        description ==
            IF "description" \in DOMAIN patch
            THEN trimOrUndefined(Some(patch.description))
            ELSE task.description
        estimateMinutes ==
            IF "estimateMinutes" \in DOMAIN patch
            THEN normalizeMinutes(Some(patch.estimateMinutes), isRest)
            ELSE task.estimateMinutes
        priority ==
            IF "priority" \in DOMAIN patch
            THEN normalizePriority(patch.priority)
            ELSE task.priority
    IN  [task EXCEPT
            !.title = title,
            !.description = description,
            !.priority = priority,
            !.estimateMinutes = estimateMinutes,
            !.status = IF "status" \in DOMAIN patch THEN patch.status ELSE "uncompleted",
            !.isRest = isRest]

\* The callback updateTask maps over the shifted array: the patched task.
patchTask(task, patch) ==
    LET isRest == IF "isRest" \in DOMAIN patch THEN patch.isRest ELSE task.isRest
        title ==
            IF "title" \in DOMAIN patch
            THEN IF Trim(patch.title) # <<>> THEN Trim(patch.title)
                 ELSE IF isRest THEN RestTime ELSE task.title
            ELSE task.title
        description ==
            IF "description" \in DOMAIN patch
            THEN trimOrUndefined(Some(patch.description))
            ELSE task.description
        estimateMinutes ==
            IF "estimateMinutes" \in DOMAIN patch
            THEN normalizeMinutes(Some(patch.estimateMinutes), isRest)
            ELSE task.estimateMinutes
        priority ==
            IF "priority" \in DOMAIN patch
            THEN normalizePriority(patch.priority)
            ELSE task.priority
    IN  [task EXCEPT
            !.title = title,
            !.description = description,
            !.priority = priority,
            !.estimateMinutes = estimateMinutes,
            !.status = IF "status" \in DOMAIN patch THEN patch.status ELSE task.status,
            !.isRest = isRest]

updateTask(ts, id, patch) ==
    LET shifted == shiftForUpdate(ts, id, patch)
    IN  [i \in 1..Len(shifted) |->
            IF shifted[i].id # id THEN shifted[i] ELSE patchTask(shifted[i], patch)]

\* removeTask that renumbers the survivors 1..N.
removeTask_Renumber(ts, id) ==
    LET kept == SelectSeq(ts, LAMBDA t : t.id # id)
    IN  [i \in 1..Len(kept) |->
            [kept[i] EXCEPT !.priority =
                1 + Cardinality({j \in 1..Len(kept) : kept[j].priority < kept[i].priority})]]

\* tasks.filter(task => task.id !== id)
removeTask(ts, id) == SelectSeq(ts, LAMBDA t : t.id # id)

\* new Map(ts.map(t => [t.id, {...t}])) read back with values(): one entry per
\* id, at the place of the id's first record, holding the id's last record.
mapById(ts) ==
    LET firsts == {i \in 1..Len(ts) : \A j \in 1..(i - 1) : ts[j].id # ts[i].id}
        lastOf(i) == CHOOSE j \in 1..Len(ts) :
                        /\ ts[j].id = ts[i].id
                        /\ \A k \in (j + 1)..Len(ts) : ts[k].id # ts[i].id
        RECURSIVE collect(_)
        collect(i) ==
            IF i > Len(ts) THEN <<>>
            ELSE IF i \in firsts THEN <<ts[lastOf(i)]>> \o collect(i + 1)
            ELSE collect(i + 1)
    IN  collect(1)

\* ids.forEach((id, index) => byId.get(id).priority = index + 1): the last
\* place of an id in the list decides; an id the list lacks keeps its priority.
\* assignByPosition that assigns the index, not index + 1.
assignByPosition_ZeroBased(byId, ids) ==
    [i \in 1..Len(byId) |->
        LET places == {k \in 1..Len(ids) : ids[k] = byId[i].id}
        IN  IF places = {} THEN byId[i]
            ELSE [byId[i] EXCEPT
                    !.priority = (CHOOSE k \in places : \A m \in places : m <= k) - 1]]

assignByPosition(byId, ids) ==
    [i \in 1..Len(byId) |->
        LET places == {k \in 1..Len(ids) : ids[k] = byId[i].id}
        IN  IF places = {} THEN byId[i]
            ELSE [byId[i] EXCEPT
                    !.priority = CHOOSE k \in places : \A m \in places : m <= k]]

reorderTasks(ts, order) ==
    IF Len(order) # Len(ts) THEN ts
    ELSE LET byId == mapById(ts)
         IN  IF Len(byId) # Len(ts) THEN ts
             ELSE assignByPosition(byId, order)

\* The model's code for a start offset that is NaN: startMinutes is an integer
\* or this value, which is none the clamp returns for a number.
NaNMinutes == -1

\* Math.min(24 * 60 - 1, Math.max(0, Math.round(minutes))): Math.round, Math.max
\* and Math.min return NaN for NaN and pass the infinities on to the clamp.
setStartMinutes(minutes) ==
    IF minutes.kind = "nan" THEN NaNMinutes
    ELSE IF minutes.kind = "inf" THEN 24 * 60 - 1
    ELSE IF minutes.kind = "ninf" THEN 0
    ELSE Min(24 * 60 - 1, Max(0, Round(minutes.tenths)))

---------------------------------------------------------------------------
(* TodoStore: sortedTasks, totalMinutes *)

\* The comparator of sortedTasks; normalizePrioritiesIfNeeded repeats it.
compareTasks(first, second) ==
    LET priorityDelta == first.priority - second.priority
        titleDelta == localeCompare(first.title, second.title)
    IN  IF priorityDelta # 0 THEN priorityDelta
        ELSE IF titleDelta # 0 THEN titleDelta
        ELSE first.createdAt - second.createdAt

\* Array.prototype.sort with compareTasks: a stable sort.
RECURSIVE sortTasks(_)
sortTasks(ts) ==
    IF ts = <<>> THEN <<>>
    ELSE LET n == Len(ts)
             x == ts[n]
             front == sortTasks(SubSeq(ts, 1, n - 1))
             k == Cardinality({i \in 1..(n - 1) : compareTasks(front[i], x) <= 0})
         IN  SubSeq(front, 1, k) \o <<x>> \o SubSeq(front, k + 1, n - 1)

sortedTasks == sortTasks(tasks)

RECURSIVE sumMinutes(_)
sumMinutes(ts) ==
    IF ts = <<>> THEN 0 ELSE getTaskMinutes(Head(ts)) + sumMinutes(Tail(ts))

totalMinutes == sumMinutes(sortedTasks)

---------------------------------------------------------------------------
(* TodoStore: restore *)

\* <<>> for a record restore drops, else <<task>>. A record has the field
\* title only when it is a string, id only when it is a string, createdAt only
\* when it is a finite number.
normalizeTask(raw, freshId, now) ==
    IF "title" \notin DOMAIN raw THEN Undefined
    ELSE LET rawIsRest == "isRest" \in DOMAIN raw /\ raw.isRest
             title == IF Trim(raw.title) # <<>> THEN Trim(raw.title)
                      ELSE IF rawIsRest THEN RestTime ELSE UntitledTask
             isRest == rawIsRest
             rawPriority == Field(raw, "priority")
         IN  Some([id |-> IF "id" \in DOMAIN raw THEN raw.id ELSE freshId,
                   title |-> title,
                   description |-> trimOrUndefined(Field(raw, "description")),
                   priority |-> normalizePriority(
                       IF IsNullish(rawPriority) THEN Whole(MIN_PRIORITY)
                       ELSE Get(rawPriority)),
                   estimateMinutes |-> normalizeMinutes(Field(raw, "estimateMinutes"), isRest),
                   status |-> IF "status" \in DOMAIN raw
                                 /\ raw.status \in {"completed", "failed"}
                              THEN raw.status ELSE "uncompleted",
                   isRest |-> isRest,
                   createdAt |-> IF "createdAt" \in DOMAIN raw THEN raw.createdAt ELSE now])

\* Whether normalizeTask(raw) calls makeId().
takesFreshId(raw) == "title" \in DOMAIN raw /\ "id" \notin DOMAIN raw

\* storedTasks.map(normalizeTask).filter(task => task !== null)
RECURSIVE normalizeStored(_, _, _)
normalizeStored(stored, freshId, now) ==
    IF stored = <<>> THEN <<>>
    ELSE normalizeTask(Head(stored), freshId, now)
         \o normalizeStored(Tail(stored),
                            IF takesFreshId(Head(stored)) THEN freshId + 1 ELSE freshId,
                            now)

normalizePrioritiesIfNeeded(ts) ==
    LET priorities == {ts[i].priority : i \in 1..Len(ts)}
        hasDuplicates == Cardinality(priorities) # Len(ts)
    IN  IF ~hasDuplicates THEN ts
        ELSE assignByPosition(mapById(ts), [i \in 1..Len(ts) |-> sortTasks(ts)[i].id])

restoreTasks(stored, freshId, now) ==
    normalizePrioritiesIfNeeded(normalizeStored(stored, freshId, now))

\* The start offset restore sets. Each stored value is optional: <<>> when the
\* key is absent, unreadable or holds no number, else <<the number or null>>.
restoreStartMinutes(storedStartMinutes, storedStartHour, nowMinutes) ==
    IF IsDefined(storedStartMinutes) /\ IsFinite(Get(storedStartMinutes))
    THEN Min(24 * 60 - 1, Max(0, Round(Get(storedStartMinutes).tenths)))
    ELSE IF IsDefined(storedStartHour) /\ IsFinite(Get(storedStartHour))
    THEN Min(23, Max(0, Round(Get(storedStartHour).tenths))) * 60
    ELSE nowMinutes

---------------------------------------------------------------------------
(* TodoStore: persist *)

\* JSON.parse(JSON.stringify(task)), as readJson returns it: a field that is
\* undefined is left out, a number is written as it is.
jsonTask(task) ==
    LET always == [id |-> task.id, title |-> task.title,
                   priority |-> Whole(task.priority), status |-> task.status,
                   isRest |-> task.isRest, createdAt |-> task.createdAt]
        description == IF IsDefined(task.description)
                       THEN "description" :> Get(task.description) ELSE <<>>
        estimateMinutes == IF IsDefined(task.estimateMinutes)
                           THEN "estimateMinutes" :> Whole(Get(task.estimateMinutes))
                           ELSE <<>>
    IN  description @@ estimateMinutes @@ always

\* What the first effect of persist leaves under tasksKey.
persistedTasks(ts) == [i \in 1..Len(ts) |-> jsonTask(ts[i])]

\* What the second effect of persist leaves under startMinutesKey:
\* JSON.stringify writes NaN as null.
persistedStartMinutes(minutes) ==
    IF minutes = NaNMinutes THEN Some(Null) ELSE Some(Whole(minutes))

---------------------------------------------------------------------------
(* App: the timeline *)

\* (minutes / dayMinutes) * 100, kept as a fraction.
Percent(minutes) == [num |-> minutes * 100, den |-> dayMinutes]

\* timelineStep that lets the cursor go on from the clipped end.
timelineStep_ClippedCursor(task, index, cursor) ==
    LET duration == getTaskMinutes(task)
        start == cursor
        end == cursor + duration
        clampedStart == Max(0, Min(dayMinutes, start))
        clampedEnd == Max(0, Min(dayMinutes, end))
        visibleMinutes == clampedEnd - clampedStart
    IN  [start |-> start, end |-> clampedEnd, visibleMinutes |-> visibleMinutes,
         emitted |-> visibleMinutes > 0 /\ start < dayMinutes,
         segment |-> [id |-> task.id,
                      title |-> task.title,
                      label |-> IF task.isRest THEN <<"R", "e", "s", "t">> ELSE task.title,
                      isRest |-> task.isRest,
                      status |-> task.status,
                      left |-> Percent(clampedStart),
                      width |-> Percent(visibleMinutes),
                      durationMinutes |-> duration,
                      delay |-> index * 80]]

\* timelineStep that does not clip the end of a task to the end of the day.
timelineStep_Unclipped(task, index, cursor) ==
    LET duration == getTaskMinutes(task)
        start == cursor
        end == cursor + duration
        clampedStart == Max(0, Min(dayMinutes, start))
        visibleMinutes == end - clampedStart
    IN  [start |-> start, end |-> end, visibleMinutes |-> visibleMinutes,
         emitted |-> visibleMinutes > 0 /\ start < dayMinutes,
         segment |-> [id |-> task.id,
                      title |-> task.title,
                      label |-> IF task.isRest THEN <<"R", "e", "s", "t">> ELSE task.title,
                      isRest |-> task.isRest,
                      status |-> task.status,
                      left |-> Percent(clampedStart),
                      width |-> Percent(visibleMinutes),
                      durationMinutes |-> duration,
                      delay |-> index * 80]]

\* timelineStep with a duration of its own: the estimate whenever there is
\* one, 0 included.
timelineStep_OwnDuration(task, index, cursor) ==
    LET duration == IF IsDefined(task.estimateMinutes) THEN Get(task.estimateMinutes)
                    ELSE IF task.isRest THEN DEFAULT_REST_MINUTES ELSE DEFAULT_WORK_MINUTES
        start == cursor
        end == cursor + duration
        clampedStart == Max(0, Min(dayMinutes, start))
        clampedEnd == Max(0, Min(dayMinutes, end))
        visibleMinutes == clampedEnd - clampedStart
    IN  [start |-> start, end |-> end, visibleMinutes |-> visibleMinutes,
         emitted |-> visibleMinutes > 0 /\ start < dayMinutes,
         segment |-> [id |-> task.id,
                      title |-> task.title,
                      label |-> IF task.isRest THEN <<"R", "e", "s", "t">> ELSE task.title,
                      isRest |-> task.isRest,
                      status |-> task.status,
                      left |-> Percent(clampedStart),
                      width |-> Percent(visibleMinutes),
                      durationMinutes |-> duration,
                      delay |-> index * 80]]

\* One pass of the forEach of buildTimelineSegments: its locals.
timelineStep(task, index, cursor) ==
    LET duration == getTaskMinutes(task)
        start == cursor
        end == cursor + duration
        clampedStart == Max(0, Min(dayMinutes, start))
        clampedEnd == Max(0, Min(dayMinutes, end))
        visibleMinutes == clampedEnd - clampedStart
    IN  [start |-> start, end |-> end, visibleMinutes |-> visibleMinutes,
         emitted |-> visibleMinutes > 0 /\ start < dayMinutes,
         segment |-> [id |-> task.id,
                      title |-> task.title,
                      label |-> IF task.isRest THEN <<"R", "e", "s", "t">> ELSE task.title,
                      isRest |-> task.isRest,
                      status |-> task.status,
                      left |-> Percent(clampedStart),
                      width |-> Percent(visibleMinutes),
                      durationMinutes |-> duration,
                      delay |-> index * 80]]

\* The passes of the forEach, in order; cursor := end after each.
RECURSIVE timelineSteps(_, _, _)
timelineSteps(ts, index, cursor) ==
    IF ts = <<>> THEN <<>>
    ELSE LET step == timelineStep(Head(ts), index, cursor)
         IN  <<step>> \o timelineSteps(Tail(ts), index + 1, step.end)

buildTimelineSegments(ts, start) ==
    LET steps == timelineSteps(ts, 0, start)
        RECURSIVE pushed(_)
        pushed(i) ==
            IF i > Len(steps) THEN <<>>
            ELSE IF steps[i].emitted THEN <<steps[i].segment>> \o pushed(i + 1)
            ELSE pushed(i + 1)
    IN  pushed(1)

\* timelineSegments over the tasks as they are stored, not as they are sorted.
timelineSegments_Unsorted == buildTimelineSegments(tasks, startMinutes)

\* App.timelineSegments
timelineSegments == buildTimelineSegments(sortedTasks, startMinutes)

\* overbooked with the full day counted as overbooked.
overbooked_Inclusive == totalMinutes >= 24 * 60

\* App.overbooked
overbooked == totalMinutes > 24 * 60

\* moveItemInArray that swaps the two places.
moveItemInArray_Swap(array, fromIndex, toIndex) ==
    LET clamp(value) == Max(0, Min(Len(array) - 1, value))
        from == clamp(fromIndex)
        to == clamp(toIndex)
    IN  IF from = to THEN array
        ELSE [array EXCEPT ![from + 1] = array[to + 1], ![to + 1] = array[from + 1]]

\* moveItemInArray of the drag-and-drop library, as dropTask calls it; places
\* are counted from 0. The places are clamped to the array; the items between
\* the two places move one place towards the place left free.
moveItemInArray(array, fromIndex, toIndex) ==
    LET clamp(value) == Max(0, Min(Len(array) - 1, value))
        from == clamp(fromIndex)
        to == clamp(toIndex)
        delta == IF to < from THEN -1 ELSE 1
    IN  IF from = to THEN array
        ELSE [k \in 1..Len(array) |->
                IF k - 1 = to THEN array[from + 1]
                ELSE IF delta = 1 /\ k - 1 >= from /\ k - 1 < to THEN array[k + 1]
                ELSE IF delta = -1 /\ k - 1 > to /\ k - 1 <= from THEN array[k - 1]
                ELSE array[k]]

\* App.dropTask: the id list it passes to reorderTasks.
dropOrder(ts, previousIndex, currentIndex) ==
    idList(moveItemInArray(sortTasks(ts), previousIndex, currentIndex))

\* App.dropTask: the task array afterwards.
dropTask(ts, previousIndex, currentIndex) ==
    reorderTasks(ts, dropOrder(ts, previousIndex, currentIndex))

---------------------------------------------------------------------------
(* Inputs *)

\* Priorities a caller passes: whole numbers, fractions (-1, 0.4, 1.5), and
\* the values that are not finite.
RawPriorities ==
    {Whole(k) : k \in 0..MaxPriority}
        \cup {Finite(-10), Finite(4), Finite(15), NaN, PosInfinity, NegInfinity}

\* Drafts and patches that differ in the priority.
RankDrafts ==
    {[title |-> <<"T">>, priority |-> r, status |-> "uncompleted", isRest |-> FALSE] :
        r \in RawPriorities}

RankPatches == {[priority |-> r] : r \in RawPriorities}

\* Patches of every shape, passed with an id that no task has.
AnyPatches ==
    RankPatches
        \cup { [status |-> "completed"],
               [title |-> <<" ">>, isRest |-> TRUE],
               [title |-> <<"A">>, description |-> <<"d">>, priority |-> Whole(1),
                estimateMinutes |-> Whole(45), status |-> "failed", isRest |-> FALSE] }

\* Ids a caller passes: the live ones and one that no task has.
IdInputs(ts) == IdsOf(ts) \cup {0}

\* Id lists a caller passes to reorderTasks: the permutations of the live ids,
\* and the lists that are not permutations: the live ids in array order with
\* the last one dropped, with one more appended, or with one place overwritten
\* by another live id or by an id that no task has.
OrderInputs(ts) ==
    LET n == Len(ts)
        ids == idList(ts)
        perms == {o \in [1..n -> IdsOf(ts)] : \A i, j \in 1..n : o[i] = o[j] => i = j}
        overwritten == {[ids EXCEPT ![i] = x] : i \in 1..n, x \in IdInputs(ts)}
        shorter == IF n = 0 THEN {} ELSE {SubSeq(ids, 1, n - 1)}
        longer == {Append(ids, x) : x \in IdInputs(ts)}
    IN  perms \cup overwritten \cup shorter \cup longer

\* Records found in storage. Ids 1 and 2 are stored ids.
StoredRecords ==
    { [id |-> 1, title |-> <<"B">>, priority |-> Whole(1), createdAt |-> 1],
      [id |-> 2, title |-> <<"A">>, priority |-> Whole(1), createdAt |-> 2],
      [id |-> 2, title |-> <<"B">>, priority |-> Finite(4), createdAt |-> 0],
      [id |-> 1, title |-> <<"A">>, priority |-> Finite(15), createdAt |-> 1],
      [id |-> 2, title |-> <<"A">>, priority |-> Whole(MaxPriority), createdAt |-> 1],
      [id |-> 2, title |-> <<" ">>, priority |-> NaN, isRest |-> TRUE, createdAt |-> 1],
      [title |-> <<"B">>, priority |-> Whole(1)],
      [title |-> <<"A">>, priority |-> Whole(1)],
      [title |-> <<"A">>],
      [id |-> 2, priority |-> Whole(1)] }

StoredArrays == UNION {[1..n -> StoredRecords] : n \in 0..MaxStored}

\* The stored arrays the registry operations start from: nothing stored, two
\* records with the same priority, and two records with the same id.
SeedArrays ==
    { <<>>,
      << [id |-> 1, title |-> <<"B">>, priority |-> Whole(1), createdAt |-> 1],
         [id |-> 2, title |-> <<"A">>, priority |-> Whole(1), createdAt |-> 2] >>,
      << [id |-> 1, title |-> <<"B">>, priority |-> Whole(1), createdAt |-> 1],
         [id |-> 1, title |-> <<"A">>, priority |-> Finite(15), createdAt |-> 1] >> }

\* Drafts that differ in the duration: no estimate, 0.4 minutes, 15 hours; a
\* work task or a rest task. Each is added in front of the others.
TimelineDrafts ==
    {[title |-> <<"T">>, priority |-> Whole(1), status |-> "uncompleted", isRest |-> r] :
        r \in BOOLEAN}
    \cup {[title |-> <<"T">>, priority |-> Whole(1), estimateMinutes |-> e,
            status |-> "uncompleted", isRest |-> r] :
            e \in {Finite(4), Whole(900)}, r \in BOOLEAN}

\* Tasks a caller passes to getTaskMinutes: no estimate, a negative one, 0, 1
\* and 45 minutes; a work task or a rest task.
TaskSamples ==
    {[id |-> 0, title |-> <<"T">>, description |-> Undefined, priority |-> 1,
      estimateMinutes |-> e, status |-> "uncompleted", isRest |-> r, createdAt |-> 0] :
        e \in {Undefined, Some(-5), Some(0), Some(1), Some(45)}, r \in BOOLEAN}

\* The drafts of the timeline and drafts of half a day (720 minutes): two of
\* these fill the day exactly.
DayDrafts ==
    TimelineDrafts
        \cup {[title |-> <<"T">>, priority |-> Whole(1), estimateMinutes |-> Whole(720),
                status |-> "uncompleted", isRest |-> r] : r \in BOOLEAN}

\* Status values a caller passes: the three of TaskStatus and one that is none
\* of them.
StatusInputs == {"uncompleted", "failed", "completed", "done"}

\* Drafts and patches that differ in the status; two patches carry none.
StatusDrafts ==
    {[title |-> <<"T">>, priority |-> Whole(1), status |-> s, isRest |-> FALSE] :
        s \in {"uncompleted", "done"}}

StatusPatches ==
    {[status |-> s] : s \in StatusInputs}
        \cup {[priority |-> Whole(1)], [title |-> <<"T">>]}

\* Stored arrays whose record has a status: none, one record with a status
\* that is none of the three, one with failed, one without the field.
StatusSeeds ==
    { <<>>,
      << [id |-> 1, title |-> <<"T">>, priority |-> Whole(1), status |-> "done",
          createdAt |-> 1] >>,
      << [id |-> 1, title |-> <<"T">>, priority |-> Whole(1), status |-> "failed",
          createdAt |-> 1] >>,
      << [id |-> 1, title |-> <<"T">>, priority |-> Whole(1), createdAt |-> 1] >> }

\* Drafts and patches that differ in the title (plain or blank) and in isRest.
TitleDrafts ==
    {[title |-> t, priority |-> Whole(1), status |-> "uncompleted", isRest |-> r] :
        t \in {<<"T">>, <<" ">>}, r \in BOOLEAN}

TitlePatches ==
    { [title |-> <<" ">>],
      [title |-> <<" ">>, isRest |-> TRUE],
      [title |-> <<" ">>, isRest |-> FALSE],
      [title |-> <<"A", " ">>],
      [isRest |-> TRUE] }

\* Stored arrays whose record has a blank title: none, a work task, a rest task.
TitleSeeds ==
    { <<>>,
      << [id |-> 1, title |-> <<" ">>, priority |-> Whole(1), createdAt |-> 1] >>,
      << [id |-> 1, title |-> <<" ">>, priority |-> Whole(1), isRest |-> TRUE,
          createdAt |-> 1] >> }

\* Drafts and patches of the whole registry: a work task without estimate in
\* front, a rest task of 0.4 minutes that leaves a gap in the priorities; a
\* patch of the rank, and one of the status and the kind.
StoreDrafts ==
    { [title |-> <<"T">>, priority |-> Whole(1), status |-> "uncompleted",
       isRest |-> FALSE],
      [title |-> <<"T">>, priority |-> Whole(3), estimateMinutes |-> Finite(4),
       status |-> "failed", isRest |-> TRUE] }

StorePatches ==
    { [priority |-> Whole(2)],
      [status |-> "completed", isRest |-> TRUE] }

\* Start offsets a caller passes to the whole registry: before the day, late
\* in the day.
StoreStarts == {Finite(-5), Whole(1400)}

\* Start offsets a caller passes: before the day, late in the day, after it.
StartInputs == {Finite(-5), Whole(1400), Whole(1500)}

\* Start offsets of every kind: those above, the ends of the range, a
\* fraction (1439.4), and the values that are not finite.
StartNumbers ==
    StartInputs
        \cup {Whole(0), Whole(1439), Whole(1440), Finite(14394),
               NaN, PosInfinity, NegInfinity}

\* What storage holds under todo.start-minutes.v1: nothing, null, Infinity
\* (1e999), -0.5, 0, 480.4, 1439, 2000.
StoredMinutes ==
    {Undefined, Some(Null), Some(PosInfinity), Some(Finite(-5)), Some(Whole(0)),
     Some(Finite(4804)), Some(Whole(1439)), Some(Whole(2000))}

\* What storage holds under todo.start-hour.v1: nothing, null, -1, 0, 8.5, 23, 24.
StoredHours ==
    {Undefined, Some(Null), Some(Whole(-1)), Some(Whole(0)), Some(Finite(85)),
     Some(Whole(23)), Some(Whole(24))}

\* getNowMinutes() when the store is built.
NowSamples == {480}

---------------------------------------------------------------------------
(* The state machine *)

\* The state after the constructor: restore() has read the stored array.
InitFrom(stored, nowMinutes) ==
    /\ tasks = restoreTasks(stored, FirstNewId, 2)
    /\ startMinutes = nowMinutes
    \* one id is set aside per stored record, taken by normalizeTask or not:
    \* a run creates at most MaxTasks tasks, the restored ones included
    /\ nextId = FirstNewId + Len(stored)
    /\ clock = 2
    /\ call = [op |-> "restore", stored |-> stored]
    /\ before = [tasks |-> <<>>, startMinutes |-> nowMinutes]

Init == \E stored \in SeedArrays : \E m \in NowSamples : InitFrom(stored, m)

\* The constructor over every stored array of the model.
InitRestore == \E stored \in StoredArrays : \E m \in NowSamples : InitFrom(stored, m)

\* The constructor with nothing in storage.
InitEmpty == \E m \in NowSamples : InitFrom(<<>>, m)

\* The constructor with no stored tasks and every stored start offset.
InitStart ==
    \E storedStartMinutes \in StoredMinutes : \E storedStartHour \in StoredHours :
      \E nowMinutes \in NowSamples :
        /\ tasks = restoreTasks(<<>>, FirstNewId, 2)
        /\ startMinutes = restoreStartMinutes(storedStartMinutes, storedStartHour, nowMinutes)
        /\ nextId = FirstNewId
        /\ clock = 2
        /\ call = [op |-> "restore", stored |-> <<>>,
                   storedStartMinutes |-> storedStartMinutes,
                   storedStartHour |-> storedStartHour]
        /\ before = [tasks |-> <<>>, startMinutes |-> nowMinutes]

\* The constructor over the stored arrays whose record has a status.
InitStatus == \E stored \in StatusSeeds : \E m \in NowSamples : InitFrom(stored, m)

\* The constructor over the stored arrays whose record has a blank title.
InitTitles == \E stored \in TitleSeeds : \E m \in NowSamples : InitFrom(stored, m)

Idle == [op |-> "idle"]

\* Date.now() returns clock + tick; the clock never runs backwards.
AddTask(draft, tick) ==
    /\ call = Idle
    /\ Len(tasks) < MaxTasks
    /\ nextId < FirstNewId + MaxTasks
    /\ tasks' = addTask(tasks, draft, nextId, clock + tick)
    /\ clock' = clock + tick
    /\ nextId' = nextId + 1
    /\ call' = [op |-> "addTask", draft |-> draft, id |-> nextId]
    /\ before' = Snapshot
    /\ UNCHANGED startMinutes

UpdateTask(id, patch) ==
    /\ call = Idle
    /\ tasks' = updateTask(tasks, id, patch)
    /\ call' = [op |-> "updateTask", id |-> id, patch |-> patch]
    /\ before' = Snapshot
    /\ UNCHANGED <<startMinutes, nextId, clock>>

RemoveTask(id) ==
    /\ call = Idle
    /\ tasks' = removeTask(tasks, id)
    /\ call' = [op |-> "removeTask", id |-> id]
    /\ before' = Snapshot
    /\ UNCHANGED <<startMinutes, nextId, clock>>

ReorderTasks(order) ==
    /\ call = Idle
    /\ tasks' = reorderTasks(tasks, order)
    /\ call' = [op |-> "reorderTasks", order |-> order]
    /\ before' = Snapshot
    /\ UNCHANGED <<startMinutes, nextId, clock>>

SetStartMinutes(minutes) ==
    /\ call = Idle
    /\ startMinutes' = setStartMinutes(minutes)
    /\ call' = [op |-> "setStartMinutes", minutes |-> minutes]
    /\ before' = Snapshot
    /\ UNCHANGED <<tasks, nextId, clock>>

\* App.setStatus(task, status) for the task at place i of the array.
SetStatus(i, status) ==
    /\ status # tasks[i].status
    /\ UpdateTask(tasks[i].id, [status |-> status])

\* A caller asks for the effective duration of a task.
GetTaskMinutes(task) ==
    /\ call = Idle
    /\ call' = [op |-> "getTaskMinutes", task |-> task, result |-> getTaskMinutes(task)]
    /\ before' = Snapshot
    /\ UNCHANGED <<tasks, startMinutes, nextId, clock>>

\* App.dropTask(event): the item at place previousIndex of the list on screen
\* is dropped at place currentIndex.
DropTask(previousIndex, currentIndex) ==
    /\ call = Idle
    /\ tasks' = dropTask(tasks, previousIndex, currentIndex)
    /\ call' = [op |-> "dropTask", previousIndex |-> previousIndex,
                 currentIndex |-> currentIndex,
                 order |-> dropOrder(tasks, previousIndex, currentIndex)]
    /\ before' = Snapshot
    /\ UNCHANGED <<startMinutes, nextId, clock>>

\* ComputeViews that sorts the stored array itself, not a copy of it.
ComputeViews_SortsInPlace ==
    /\ call = Idle
    /\ tasks' = sortTasks(tasks)
    /\ call' = [op |-> "computeViews", sortedTasks |-> sortedTasks,
                 totalMinutes |-> totalMinutes, timelineSegments |-> timelineSegments]
    /\ before' = Snapshot
    /\ UNCHANGED <<startMinutes, nextId, clock>>

\* The template reads sortedTasks, totalMinutes and timelineSegments: each is
\* computed from a copy ([...this._tasks()].sort, reduce, a new segments
\* array) and nothing is written.
ComputeViews ==
    /\ call = Idle
    /\ call' = [op |-> "computeViews", sortedTasks |-> sortedTasks,
                 totalMinutes |-> totalMinutes, timelineSegments |-> timelineSegments]
    /\ before' = Snapshot
    /\ UNCHANGED <<tasks, startMinutes, nextId, clock>>

\* The page is loaded again: the effects of persist have written the tasks
\* and the start offset, and a new store is constructed from that storage.
\* Nothing was ever stored under startHourKey.
Reload(nowMinutes) ==
    /\ call = Idle
    /\ tasks' = restoreTasks(persistedTasks(tasks), nextId, clock)
    /\ startMinutes' = restoreStartMinutes(persistedStartMinutes(startMinutes),
                                           Undefined, nowMinutes)
    /\ call' = [op |-> "reload", nowMinutes |-> nowMinutes]
    /\ before' = Snapshot
    /\ UNCHANGED <<nextId, clock>>

\* The operation has run to completion: control is back with the caller.
Return ==
    /\ call # Idle
    /\ call' = Idle
    /\ before' = Snapshot
    /\ UNCHANGED <<tasks, startMinutes, nextId, clock>>

Next ==
    \/ Return
    \/ \E draft \in RankDrafts : AddTask(draft, 1)
    \/ \E id \in IdInputs(tasks) : \E patch \in RankPatches : UpdateTask(id, patch)
    \/ \E patch \in AnyPatches : UpdateTask(0, patch)
    \/ \E id \in IdInputs(tasks) : RemoveTask(id)
    \/ \E order \in OrderInputs(tasks) : ReorderTasks(order)

\* The registry after construction from any stored array.
Spec == Init /\ [][Next]_vars

\* The registry that starts empty.
SpecEmpty == InitEmpty /\ [][Next]_vars

\* The registry that starts empty and is never asked to remove a task.
NextNoRemove ==
    \/ Return
    \/ \E draft \in RankDrafts : AddTask(draft, 1)
    \/ \E id \in IdInputs(tasks) : \E patch \in RankPatches : UpdateTask(id, patch)
    \/ \E order \in OrderInputs(tasks) : ReorderTasks(order)

SpecNoRemove == InitEmpty /\ [][NextNoRemove]_vars

\* The constructor over every stored array, and removals after it.
NextRestore ==
    \/ Return
    \/ \E id \in IdInputs(tasks) : RemoveTask(id)

SpecRestore == InitRestore /\ [][NextRestore]_vars

\* The registry that starts empty, with tasks of several durations and a
\* start offset that moves.
NextTimeline ==
    \/ Return
    \/ \E draft \in TimelineDrafts : AddTask(draft, 1)
    \/ \E id \in IdInputs(tasks) : RemoveTask(id)
    \/ \E minutes \in StartInputs : SetStartMinutes(minutes)

SpecTimeline == InitEmpty /\ [][NextTimeline]_vars

\* The registry that starts empty, with tasks of several durations, and
\* callers that ask for the effective duration of live tasks and of others.
NextMinutes ==
    \/ Return
    \/ \E draft \in TimelineDrafts : AddTask(draft, 1)
    \/ \E task \in Range(tasks) \cup TaskSamples : GetTaskMinutes(task)

SpecMinutes == InitEmpty /\ [][NextMinutes]_vars

\* The registry that starts empty, with tasks that fill the day, fall short of
\* it or overbook it, and a start offset that moves.
NextDay ==
    \/ Return
    \/ \E draft \in DayDrafts : AddTask(draft, 1)
    \/ \E id \in IdInputs(tasks) : RemoveTask(id)
    \/ \E minutes \in StartInputs : SetStartMinutes(minutes)

SpecDay == InitEmpty /\ [][NextDay]_vars

\* The registry that starts empty, with the list on screen: every operation on
\* tasks, and items dragged from any place of the list to any place.
NextDrop ==
    \/ Return
    \/ \E draft \in RankDrafts : AddTask(draft, 1)
    \/ \E id \in IdInputs(tasks) : \E patch \in RankPatches : UpdateTask(id, patch)
    \/ \E id \in IdInputs(tasks) : RemoveTask(id)
    \/ \E order \in OrderInputs(tasks) : ReorderTasks(order)
    \/ \E previousIndex, currentIndex \in 0..(Len(tasks) - 1) :
            DropTask(previousIndex, currentIndex)

SpecDrop == InitEmpty /\ [][NextDrop]_vars

\* The registry that starts empty, with every operation of the store on tasks
\* and on the start offset, the views computed in between, and the page
\* loaded again from what was persisted.
NextStore ==
    \/ Return
    \/ /\ nextId < FirstNewId + MaxFieldTasks
       /\ \E draft \in StoreDrafts : AddTask(draft, 1)
    \/ \E id \in IdInputs(tasks) : \E patch \in StorePatches : UpdateTask(id, patch)
    \/ \E id \in IdInputs(tasks) : RemoveTask(id)
    \/ \E order \in OrderInputs(tasks) : ReorderTasks(order)
    \/ \E minutes \in StoreStarts : SetStartMinutes(minutes)
    \/ ComputeViews
    \/ \E nowMinutes \in NowSamples : Reload(nowMinutes)

SpecStore == InitEmpty /\ [][NextStore]_vars

\* The start offset: restored from storage, then set by callers.
NextStart ==
    \/ Return
    \/ \E minutes \in StartNumbers : SetStartMinutes(minutes)

SpecStart == InitStart /\ [][NextStart]_vars

\* The registry with tasks of every status.
NextStatus ==
    \/ Return
    \/ /\ nextId < FirstNewId + MaxFieldTasks
       /\ \E draft \in StatusDrafts : AddTask(draft, 1)
    \/ \E id \in IdInputs(tasks) : \E patch \in StatusPatches : UpdateTask(id, patch)
    \/ \E i \in 1..Len(tasks) : \E status \in StatusInputs : SetStatus(i, status)
    \/ \E id \in IdInputs(tasks) : RemoveTask(id)
    \/ \E order \in OrderInputs(tasks) : ReorderTasks(order)
    \/ SetStartMinutes(Whole(1400))

SpecStatus == InitStatus /\ [][NextStatus]_vars

\* The registry with tasks whose titles are set and patched.
NextTitles ==
    \/ Return
    \/ /\ nextId < FirstNewId + MaxFieldTasks
       /\ \E draft \in TitleDrafts : AddTask(draft, 1)
    \/ \E id \in IdInputs(tasks) : \E patch \in TitlePatches : UpdateTask(id, patch)
    \/ \E id \in IdInputs(tasks) : RemoveTask(id)

SpecTitles == InitTitles /\ [][NextTitles]_vars

---------------------------------------------------------------------------
(* Vocabulary of the properties *)

PrioritiesOf(ts) == {ts[i].priority : i \in 1..Len(ts)}

UniquePriorities(ts) ==
    \A i, j \in 1..Len(ts) : ts[i].priority = ts[j].priority => i = j

UniqueIds(ts) ==
    \A i, j \in 1..Len(ts) : ts[i].id = ts[j].id => i = j

\* order lists every live id exactly once.
IsPermutationOfLive(order, ts) ==
    /\ Len(order) = Len(ts)
    /\ Range(order) = IdsOf(ts)
    /\ \A i, j \in 1..Len(order) : order[i] = order[j] => i = j

\* ts2 is ts1 with nothing but priorities changed, task by task.
SameButPriorities(ts1, ts2) ==
    /\ Len(ts1) = Len(ts2)
    /\ \A i \in 1..Len(ts1) : ts2[i] = [ts1[i] EXCEPT !.priority = ts2[i].priority]

---------------------------------------------------------------------------
(* C1 *)

\* C1: starting from an empty registry, after any sequence of addTask,
\* updateTask and reorderTasks calls with any arguments, no two live tasks
\* share a priority. (Checked under SpecNoRemove; reorderTasks breaks it.)
C1_UniquePriorities == UniquePriorities(tasks)

---------------------------------------------------------------------------
(* C2 *)

\* C2: reorderTasks(order) leaves the task collection unchanged whenever order
\* is not an exact permutation of the live ids. (The code checks the length of
\* the list only.)
C2_InvalidOrderIsNoOp ==
    (call.op = "reorderTasks" /\ ~IsPermutationOfLive(call.order, before.tasks))
        => tasks = before.tasks

---------------------------------------------------------------------------
(* C3 *)

\* C3: after restore and any sequence of addTask, updateTask, removeTask and
\* reorderTasks calls with any numeric priority (0, negative and non-finite
\* included) every live task has an integer priority >= 1; the decrement of the
\* rank-change shift never takes a priority below 1.
C3_PriorityAtLeastOne ==
    \A i \in 1..Len(tasks) : tasks[i].priority \in Int /\ tasks[i].priority >= 1

\* An update that moves the task of priority 1 down has just decremented
\* another task from 2 to 1, the lowest priority a decrement can reach.
C3_Witness ==
    /\ call.op = "updateTask"
    /\ "priority" \in DOMAIN call.patch
    /\ \E i \in 1..Len(tasks) :
        /\ tasks[i].id # call.id
        /\ before.tasks[i].priority = 2
        /\ tasks[i].priority = 1

---------------------------------------------------------------------------
(* C4 *)

\* C4: when order is a permutation of exactly the live ids (N tasks),
\* reorderTasks(order) gives the task order[i] the priority i (counting from
\* 1), so the priorities are exactly 1..N, sortedTasks lists the tasks in the
\* order given, and no field other than priority changes.
C4_ReorderAssignsPositions ==
    (call.op = "reorderTasks" /\ IsPermutationOfLive(call.order, before.tasks))
        => /\ SameButPriorities(before.tasks, tasks)
           /\ \A i \in 1..Len(call.order) : \A k \in 1..Len(tasks) :
                tasks[k].id = call.order[i] => tasks[k].priority = i
           /\ PrioritiesOf(tasks) = 1..Len(before.tasks)
           /\ idList(sortedTasks) = call.order

\* Three tasks have just been put into an order that was not theirs.
C4_Witness ==
    /\ call.op = "reorderTasks"
    /\ IsPermutationOfLive(call.order, before.tasks)
    /\ Len(tasks) = 3
    /\ call.order # idList(sortTasks(before.tasks))
    /\ PrioritiesOf(before.tasks) # 1..3

---------------------------------------------------------------------------
(* C5 *)

\* C5: addTask with normalized priority P adds exactly one task, with priority
\* P, increments by exactly 1 every pre-existing task whose priority was >= P,
\* leaves every pre-existing task whose priority was < P unchanged, and keeps
\* the relative priority order of the pre-existing tasks.
C5_InsertionShift ==
    call.op = "addTask"
        => LET old == before.tasks
               n == Len(old)
               P == normalizePriority(call.draft.priority)
           IN  /\ Len(tasks) = n + 1
               /\ tasks[n + 1].id = call.id
               /\ tasks[n + 1].priority = P
               /\ \A i \in 1..n :
                    tasks[i] = [old[i] EXCEPT
                                  !.priority = IF @ >= P THEN @ + 1 ELSE @]
               /\ \A i, j \in 1..n :
                    (old[i].priority < old[j].priority)
                        <=> (tasks[i].priority < tasks[j].priority)

\* A task has just been added at a priority that one task already had, above
\* a task of a smaller priority.
C5_Witness ==
    /\ call.op = "addTask"
    /\ \E i, j \in 1..Len(before.tasks) :
        /\ before.tasks[i].priority < normalizePriority(call.draft.priority)
        /\ before.tasks[j].priority = normalizePriority(call.draft.priority)
        /\ tasks[i].priority = before.tasks[i].priority
        /\ tasks[j].priority = before.tasks[j].priority + 1

---------------------------------------------------------------------------
(* C6 *)

\* The priority C6 gives a task other than the target that had priority p.
C6_Shifted(p, oldP, newP) ==
    IF newP > oldP /\ p > oldP /\ p <= newP THEN p - 1
    ELSE IF newP < oldP /\ p >= newP /\ p < oldP THEN p + 1
    ELSE p

\* C6: updateTask(id, {priority}) on a live task with priority oldP and
\* normalized new priority newP sets the target to newP; if newP > oldP every
\* other task with priority in (oldP, newP] is decremented by 1, if newP < oldP
\* every other task with priority in [newP, oldP) is incremented by 1, every
\* other task keeps its priority, and the relative priority order among the
\* other tasks is unchanged; when newP = oldP no priority changes.
C6_RankChangeShift ==
    (/\ call.op = "updateTask"
     /\ "priority" \in DOMAIN call.patch
     /\ Cardinality({i \in 1..Len(before.tasks) : before.tasks[i].id = call.id}) = 1)
        => LET old == before.tasks
               t == CHOOSE i \in 1..Len(old) : old[i].id = call.id
               others == (1..Len(old)) \ {t}
               oldP == old[t].priority
               newP == normalizePriority(call.patch.priority)
           IN  /\ Len(tasks) = Len(old)
               /\ tasks[t].priority = newP
               /\ \A i \in others :
                    tasks[i].priority = C6_Shifted(old[i].priority, oldP, newP)
               /\ \A i, j \in others :
                    (old[i].priority < old[j].priority)
                        <=> (tasks[i].priority < tasks[j].priority)
               /\ newP = oldP => \A i \in 1..Len(old) : tasks[i].priority = old[i].priority

---------------------------------------------------------------------------
(* C7 *)

\* C7: removeTask(id) deletes exactly the task with that id and leaves every
\* surviving task unchanged, its priority included (gaps may remain); with an
\* id that is not live the collection is unchanged; priority uniqueness among
\* the survivors is preserved.
C7_RemoveKeepsSurvivors ==
    call.op = "removeTask"
        => LET old == before.tasks
               keep == {i \in 1..Len(old) : old[i].id # call.id}
               \* the place among the survivors of the task that was at place i
               place(i) == Cardinality({j \in keep : j <= i})
           IN  /\ Len(tasks) = Cardinality(keep)
               /\ \A i \in keep : tasks[place(i)] = old[i]
               /\ call.id \notin IdsOf(old) => tasks = old
               /\ UniquePriorities(old) => UniquePriorities(tasks)

\* A removal has just left a gap: two tasks survive, with priorities that are
\* not 1 and 2.
C7_Witness ==
    /\ call.op = "removeTask"
    /\ Len(before.tasks) = 3
    /\ Len(tasks) = 2
    /\ UniquePriorities(tasks)
    /\ PrioritiesOf(tasks) # 1..2

---------------------------------------------------------------------------
(* C8 *)

\* C8: updateTask(id, patch) with an id that matches no live task is a no-op
\* for any patch, a patch carrying a priority included: the tasks, their
\* priorities and their fields are the same before and after.
C8_UnknownIdIsNoOp ==
    (call.op = "updateTask" /\ call.id \notin IdsOf(before.tasks))
        => tasks = before.tasks

\* An update for an id that no task has carried a priority that a live task
\* holds.
C8_Witness ==
    /\ call.op = "updateTask"
    /\ call.id \notin IdsOf(before.tasks)
    /\ "priority" \in DOMAIN call.patch
    /\ Len(tasks) >= 2
    /\ normalizePriority(call.patch.priority) \in PrioritiesOf(before.tasks)

---------------------------------------------------------------------------
(* C9 *)

\* first comes before second by (priority, title, createdAt), each ascending.
C9_Precedes(first, second) ==
    \/ first.priority < second.priority
    \/ /\ first.priority = second.priority
       /\ localeCompare(first.title, second.title) < 0
    \/ /\ first.priority = second.priority
       /\ localeCompare(first.title, second.title) = 0
       /\ first.createdAt < second.createdAt

\* C9: on restore, if the loaded records contain a duplicate priority, all
\* loaded tasks are ordered by (priority, title, createdAt) ascending and the
\* task at position i (from 0) of that order gets priority i + 1, so that the
\* restored priorities are unique and exactly 1..N; if the loaded priorities
\* are pairwise distinct they are kept as stored. (The loaded records are the
\* records normalizeTask returns; records equal in all three keys keep their
\* stored order.)
C9_LoadNormalization ==
    call.op = "restore"
        => LET loaded == normalizeStored(call.stored, FirstNewId, clock)
               n == Len(loaded)
               rank(k) == 1 + Cardinality({j \in 1..n :
                                \/ C9_Precedes(loaded[j], loaded[k])
                                \/ /\ ~C9_Precedes(loaded[k], loaded[j])
                                   /\ j < k})
           IN  IF UniquePriorities(loaded) THEN tasks = loaded
               ELSE /\ Len(tasks) = n
                    /\ \A k \in 1..n : tasks[k] = [loaded[k] EXCEPT !.priority = rank(k)]
                    /\ PrioritiesOf(tasks) = 1..n

---------------------------------------------------------------------------
(* C10 *)

\* The effective durations of the first k tasks of ts, summed.
RECURSIVE C10_DurationOfFirst(_, _)
C10_DurationOfFirst(ts, k) ==
    IF k = 0 THEN 0 ELSE C10_DurationOfFirst(ts, k - 1) + getTaskMinutes(ts[k])

\* C10: the unclipped start of the k-th task in priority order is the start
\* offset plus the effective durations of all tasks before it, whether or not
\* these got a segment, and an emitted segment covers the minutes from that
\* start to start + duration, clipped to 1440.
C10_TimelineStarts ==
    LET steps == timelineSteps(sortedTasks, 0, startMinutes)
        start(k) == startMinutes + C10_DurationOfFirst(sortedTasks, k - 1)
        emitted == {k \in 1..Len(steps) : steps[k].emitted}
        \* the place in timelineSegments of the segment of the k-th task
        place(k) == Cardinality({j \in emitted : j <= k})
    IN  /\ Len(steps) = Len(sortedTasks)
        /\ Len(timelineSegments) = Cardinality(emitted)
        /\ \A k \in 1..Len(steps) :
            /\ steps[k].start = start(k)
            /\ k \in emitted =>
                LET segment == timelineSegments[place(k)]
                    duration == getTaskMinutes(sortedTasks[k])
                IN  /\ segment.id = sortedTasks[k].id
                    /\ segment.left = Percent(start(k))
                    /\ segment.width = Percent(Min(1440, start(k) + duration) - start(k))

\* Three tasks run past the end of the day: the second one starts before
\* minute 1440 and is clipped, the third has no segment and starts where the
\* second one ends, unclipped.
C10_Witness ==
    LET steps == timelineSteps(sortedTasks, 0, startMinutes)
    IN  /\ Len(steps) = 3
        /\ steps[2].emitted
        /\ steps[2].end > 1440
        /\ ~steps[3].emitted
        /\ steps[3].start = steps[2].end

---------------------------------------------------------------------------
(* C11 *)

\* C11: in the timeline, a task whose unclipped start is >= 1440 has no
\* segment; a task that starts before 1440 and ends after it has a segment that
\* ends exactly at 1440 (visible minutes = 1440 - start) and whose
\* durationMinutes is the full duration; a task that fits before 1440 has a
\* segment of its full duration; no segment wraps around to the start of the
\* day.
C11_TimelineClipping ==
    LET sorted == sortedTasks
        segments == timelineSegments
        n == Len(sorted)
        start(k) == startMinutes + C10_DurationOfFirst(sorted, k - 1)
        duration(k) == getTaskMinutes(sorted[k])
        segmentsOf(k) == {j \in 1..Len(segments) : segments[j].id = sorted[k].id}
        segmentOf(k) == segments[CHOOSE j \in segmentsOf(k) : TRUE]
    IN  /\ \A k \in 1..n :
            /\ start(k) >= 1440 => segmentsOf(k) = {}
            /\ (start(k) < 1440 /\ start(k) + duration(k) > 1440) =>
                    /\ Cardinality(segmentsOf(k)) = 1
                    /\ segmentOf(k).left = Percent(start(k))
                    /\ segmentOf(k).width = Percent(1440 - start(k))
                    /\ segmentOf(k).durationMinutes = duration(k)
            /\ start(k) + duration(k) <= 1440 =>
                    /\ Cardinality(segmentsOf(k)) = 1
                    /\ segmentOf(k).left = Percent(start(k))
                    /\ segmentOf(k).width = Percent(duration(k))
                    /\ segmentOf(k).durationMinutes = duration(k)
        /\ \A j \in 1..Len(segments) :
            /\ segments[j].left.num >= 0
            /\ segments[j].width.num > 0
            /\ segments[j].left.num + segments[j].width.num <= 100 * 1440

\* Late in the day: the first task fits, the second is cut at minute 1440 and
\* keeps its full durationMinutes, the third has no segment.
C11_Witness ==
    /\ Len(sortedTasks) = 3
    /\ Len(timelineSegments) = 2
    /\ startMinutes + getTaskMinutes(sortedTasks[1]) < 1440
    /\ timelineSegments[2].id = sortedTasks[2].id
    /\ timelineSegments[2].left.num + timelineSegments[2].width.num = 100 * 1440
    /\ timelineSegments[2].width.num < 100 * timelineSegments[2].durationMinutes

---------------------------------------------------------------------------
(* C12 *)

\* C12: the effective duration of a task (getTaskMinutes) is its
\* estimateMinutes when that is present and > 0, and otherwise (absent, 0 or
\* negative) 15 for a rest task and 60 for any other; it is always positive.
C12_EffectiveDuration ==
    /\ call.op = "getTaskMinutes"
        => LET estimate == call.task.estimateMinutes
           IN  /\ (estimate # <<>> /\ estimate[1] > 0) => call.result = estimate[1]
               /\ (estimate = <<>> \/ estimate[1] <= 0)
                    => call.result = IF call.task.isRest THEN 15 ELSE 60
               /\ call.result > 0
    /\ \A i \in 1..Len(tasks) : getTaskMinutes(tasks[i]) > 0

\* The effective duration of a live rest task whose estimate is 0 (added with
\* an estimate of 0.4 minutes) has just been asked for: 15.
C12_Witness ==
    /\ call.op = "getTaskMinutes"
    /\ call.task \in Range(tasks)
    /\ call.task.estimateMinutes = <<0>>
    /\ call.task.isRest
    /\ call.result = 15

---------------------------------------------------------------------------
(* C13 *)

\* The effective durations of all tasks of the array ts, summed in array order.
RECURSIVE C13_TotalOf(_, _)
C13_TotalOf(ts, k) ==
    IF k = 0 THEN 0
    ELSE C13_TotalOf(ts, k - 1)
            + (IF ts[k].estimateMinutes # <<>> /\ ts[k].estimateMinutes[1] > 0
               THEN ts[k].estimateMinutes[1]
               ELSE IF ts[k].isRest THEN 15 ELSE 60)

\* C13: the overbooked indicator is true exactly when totalMinutes, the sum of
\* the effective durations of all live tasks, is strictly greater than 1440;
\* at 1440 it is false; it does not depend on the start offset.
C13_Overbooked ==
    /\ totalMinutes = C13_TotalOf(tasks, Len(tasks))
    /\ overbooked <=> C13_TotalOf(tasks, Len(tasks)) > 1440
    /\ C13_TotalOf(tasks, Len(tasks)) = 1440 => ~overbooked
    /\ call.op = "setStartMinutes"
        => (overbooked <=> C13_TotalOf(before.tasks, Len(before.tasks)) > 1440)

\* The tasks fill the day exactly, which is not overbooked, and the start
\* offset has just been moved.
C13_Witness ==
    /\ totalMinutes = 1440
    /\ ~overbooked
    /\ call.op = "setStartMinutes"
    /\ startMinutes # before.startMinutes

---------------------------------------------------------------------------
(* C14 *)

\* The nearest integer to the number t/10, brought into lo..hi.
C14_Clamp(t, lo, hi) ==
    LET rounded == IF t >= 0 THEN (t + 5) \div 10 ELSE -((5 - t - 1) \div 10)
    IN  IF rounded < lo THEN lo ELSE IF rounded > hi THEN hi ELSE rounded

\* C14: the start offset is an integer in [0, 1439] in every reachable state:
\* setStartMinutes(m) stores m clamped to [0, 1439] for any m, restore clamps
\* a stored minute value to [0, 1439], and when there is no minute record a
\* stored legacy hour h is restored as clamp(h, 0, 23) * 60. (setStartMinutes
\* stores NaN when m is NaN.)
C14_StartOffsetInRange ==
    /\ startMinutes \in 0..1439
    /\ (call.op = "setStartMinutes" /\ call.minutes.kind = "finite")
        => startMinutes = C14_Clamp(call.minutes.tenths, 0, 1439)
    /\ (call.op = "setStartMinutes" /\ call.minutes.kind = "inf") => startMinutes = 1439
    /\ (call.op = "setStartMinutes" /\ call.minutes.kind = "ninf") => startMinutes = 0
    /\ (call.op = "restore" /\ "storedStartMinutes" \in DOMAIN call)
        => LET minutes == call.storedStartMinutes
               hour == call.storedStartHour
           IN  /\ (minutes # <<>> /\ minutes[1].kind = "finite")
                    => startMinutes = C14_Clamp(minutes[1].tenths, 0, 1439)
               /\ (minutes = <<>> /\ hour # <<>> /\ hour[1].kind = "finite")
                    => startMinutes = C14_Clamp(hour[1].tenths, 0, 23) * 60

---------------------------------------------------------------------------
(* C15 *)

\* C15: in every state reachable by restore from any stored task array
\* (records that repeat an id included) followed by any sequence of registry
\* operations, there is exactly one live task per id. (restore keeps two
\* records with the same id when their priorities differ.)
C15_OneTaskPerId ==
    \A id \in IdsOf(tasks) : Cardinality({i \in 1..Len(tasks) : tasks[i].id = id}) = 1

---------------------------------------------------------------------------
(* C16 *)

\* C16: every live task's status is one of uncompleted, failed, completed in
\* every reachable state, whatever raw status is supplied in the draft of
\* addTask, in the patch of updateTask or in a record loaded by restore; a
\* value outside the three is stored as uncompleted. (addTask and updateTask
\* store the status they are given.)
C16_StatusIsValid ==
    LET valid == {"uncompleted", "failed", "completed"}
    IN  /\ \A i \in 1..Len(tasks) : tasks[i].status \in valid
        /\ (call.op = "addTask" /\ call.draft.status \notin valid)
            => tasks[Len(tasks)].status = "uncompleted"
        /\ (call.op = "updateTask" /\ "status" \in DOMAIN call.patch
                /\ call.patch.status \notin valid)
            => \A i \in 1..Len(tasks) :
                    tasks[i].id = call.id => tasks[i].status = "uncompleted"

---------------------------------------------------------------------------
(* C18 *)

\* The status changes the state machine of a task names.
C18_Transitions ==
    { <<"uncompleted", "completed">>, <<"uncompleted", "failed">>,
      <<"completed", "uncompleted">>, <<"failed", "uncompleted">> }

\* C18: a task's status changes only in an updateTask call for that task's id
\* whose patch carries a status: addTask of another task, the priority shifts
\* addTask and updateTask apply to other tasks, removeTask of another task,
\* reorderTasks, setStartMinutes and the timeline projection leave the status
\* of every existing task unchanged; and updateTask takes each of
\* uncompleted -> completed, uncompleted -> failed, completed -> uncompleted
\* and failed -> uncompleted.
C18_StatusChangesOnlyByUpdate ==
    /\ \A i \in 1..Len(before.tasks) : \A j \in 1..Len(tasks) :
            (before.tasks[i].id = tasks[j].id /\ before.tasks[i].status # tasks[j].status)
                => /\ call.op = "updateTask"
                   /\ call.id = tasks[j].id
                   /\ "status" \in DOMAIN call.patch
                   /\ tasks[j].status = call.patch.status
    /\ \A k \in 1..Len(timelineSegments) : \E j \in 1..Len(tasks) :
            /\ tasks[j].id = timelineSegments[k].id
            /\ tasks[j].status = timelineSegments[k].status
    /\ \A j \in 1..Len(tasks) : \A tr \in C18_Transitions :
            tasks[j].status = tr[1]
                => updateTask(tasks, tasks[j].id, [status |-> tr[2]])[j].status = tr[2]

\* A task that had failed has just been set back to uncompleted, next to a
\* completed task that kept its status.
C18_Witness ==
    /\ call.op = "updateTask"
    /\ Len(tasks) = 2
    /\ \E i, j \in 1..2 :
        /\ tasks[i].id = call.id
        /\ before.tasks[i].status = "failed"
        /\ tasks[i].status = "uncompleted"
        /\ tasks[j].id # call.id
        /\ before.tasks[j].status = "completed"
        /\ tasks[j].status = "completed"

---------------------------------------------------------------------------
(* C17 *)

\* The call was an updateTask that moved a live task from priority oldP to
\* newP, and some priority of the shifted range, (oldP, newP] or [newP, oldP),
\* was held by no task: the range had a gap.
C17_CrossesGap ==
    /\ call.op = "updateTask"
    /\ "priority" \in DOMAIN call.patch
    /\ \E t \in 1..Len(before.tasks) :
        /\ before.tasks[t].id = call.id
        /\ LET oldP == before.tasks[t].priority
               newP == normalizePriority(call.patch.priority)
               range == IF newP > oldP THEN (oldP + 1)..newP ELSE newP..(oldP - 1)
           IN  /\ newP # oldP
               /\ \E g \in range : g \notin PrioritiesOf(before.tasks)

\* C17 as stated: from a state with unique priorities, removeTask calls that
\* leave a gap followed by an updateTask that moves a task's priority across
\* the gapped range produce a state in which two live tasks share a priority.
C17_GapShiftCollides ==
    (UniquePriorities(before.tasks) /\ C17_CrossesGap) => ~UniquePriorities(tasks)

\* C17, amended: the rank-change shift of updateTask is collision-free
\* whether or not the shifted range has gaps: from a state with unique
\* priorities and one task per id, removeTask calls followed by an updateTask
\* that moves a task's priority, across a gapped range included, never
\* produce a state in which two live tasks share a priority.
C17_GapShiftCollisionFree ==
    (call.op = "updateTask" /\ UniquePriorities(before.tasks) /\ UniqueIds(before.tasks))
        => UniquePriorities(tasks)

\* After a removal, an update has just moved a task across a gapped range
\* and shifted another task; the priorities are still unique.
C17_Witness ==
    /\ UniquePriorities(before.tasks)
    /\ C17_CrossesGap
    /\ nextId - FirstNewId > Len(tasks)
    /\ \E i \in 1..Len(tasks) :
        /\ tasks[i].id # call.id
        /\ tasks[i].priority # before.tasks[i].priority
    /\ UniquePriorities(tasks)

---------------------------------------------------------------------------
(* C19 *)

\* C19: updateTask with a patch whose title is empty after trimming sets the
\* task's title to "Rest time" when the patched task is a rest task and to
\* "Untitled task" when it is not, as addTask and restore do; so every live
\* task's title is non-empty in every reachable state. (updateTask keeps the
\* old title of a task that is not a rest task.)
C19_EmptyTitlePatch ==
    /\ (/\ call.op = "updateTask"
        /\ "title" \in DOMAIN call.patch
        /\ \A k \in 1..Len(call.patch.title) : call.patch.title[k] = " ")
        => \A i \in 1..Len(tasks) :
                tasks[i].id = call.id
                    => tasks[i].title = IF tasks[i].isRest
                                        THEN <<"R", "e", "s", "t", " ", "t", "i", "m", "e">>
                                        ELSE <<"U", "n", "t", "i", "t", "l", "e", "d", " ",
                                               "t", "a", "s", "k">>
    /\ \A i \in 1..Len(tasks) : tasks[i].title # <<>>

---------------------------------------------------------------------------
(* C20 *)

\* The visible minutes of the first k segments, summed: a width of w percent
\* of the day is w * 1440 / 100 minutes.
RECURSIVE C20_VisibleOfFirst(_, _)
C20_VisibleOfFirst(segments, k) ==
    IF k = 0 THEN 0
    ELSE C20_VisibleOfFirst(segments, k - 1)
            + (segments[k].width.num * 1440) \div (segments[k].width.den * 100)

\* C20: totals and timeline use the same durations: the durationMinutes of
\* every emitted segment is that task's effective duration as counted in
\* totalMinutes, and when startOffset + totalMinutes <= 1440 every task has a
\* segment and the visible minutes of all segments sum to exactly
\* totalMinutes.
C20_TotalsMatchTimeline ==
    LET segments == timelineSegments
        total == totalMinutes
    IN  /\ total = C10_DurationOfFirst(tasks, Len(tasks))
        /\ \A k \in 1..Len(segments) : \E j \in 1..Len(tasks) :
                /\ tasks[j].id = segments[k].id
                /\ segments[k].durationMinutes = getTaskMinutes(tasks[j])
        /\ startMinutes + total <= 1440
            => /\ Len(segments) = Len(tasks)
               /\ \A j \in 1..Len(tasks) : \E k \in 1..Len(segments) :
                        segments[k].id = tasks[j].id
               /\ C20_VisibleOfFirst(segments, Len(segments)) = total

\* Three tasks, one of them with an estimate of 0 and so with the default
\* duration, end before the day does: each has a segment.
C20_Witness ==
    /\ Len(tasks) = 3
    /\ \E j \in 1..3 : tasks[j].estimateMinutes = <<0>>
    /\ \E j \in 1..3 : tasks[j].estimateMinutes = <<720>>
    /\ startMinutes + totalMinutes <= 1440
    /\ startMinutes > 0
    /\ Len(timelineSegments) = 3

---------------------------------------------------------------------------
(* C21 *)

\* C21: a task's stored estimateMinutes is either absent or a positive integer
\* in every reachable state: for any numeric input v, fractions that round to
\* 0 included, normalizeMinutes returns unset when v is null or undefined,
\* the default of the kind (15 rest, 60 work) when v is not finite or <= 0,
\* and otherwise round(v) >= 1. (normalizeMinutes(0.4) is 0.)
C21_EstimateAbsentOrPositive ==
    /\ \A i \in 1..Len(tasks) :
            \/ tasks[i].estimateMinutes = <<>>
            \/ tasks[i].estimateMinutes[1] \in Nat \ {0}
    /\ call.op = "addTask"
        => LET stored == tasks[Len(tasks)].estimateMinutes
               kindDefault == IF call.draft.isRest THEN 15 ELSE 60
           IN  IF "estimateMinutes" \notin DOMAIN call.draft
                    \/ call.draft.estimateMinutes.kind = "null"
               THEN stored = <<>>
               ELSE IF call.draft.estimateMinutes.kind # "finite"
                        \/ call.draft.estimateMinutes.tenths <= 0
               THEN stored = <<kindDefault>>
               ELSE /\ stored = <<(call.draft.estimateMinutes.tenths + 5) \div 10>>
                    /\ stored[1] >= 1

---------------------------------------------------------------------------
(* C22 *)

\* C22: for any priority-sorted task list and any start offset in [0, 1439],
\* the timeline segments are those of a prefix of the sorted tasks, a non-empty
\* one when there is a task (once a task is dropped every later one is, and
\* the first task always has a segment); they are in priority order; each has
\* at least 1 visible minute and lies within [0, 1440]; the first begins at
\* the start offset and each other one begins where the previous one ends.
C22_TimelinePrefix ==
    LET sorted == sortedTasks
        segments == timelineSegments
        n == Len(segments)
    IN  (startMinutes >= 0 /\ startMinutes <= 1439) =>
            /\ n <= Len(sorted)
            /\ Len(sorted) > 0 => n >= 1
            /\ \A k \in 1..n :
                    /\ segments[k].id = sorted[k].id
                    /\ segments[k].isRest = sorted[k].isRest
                    /\ segments[k].durationMinutes = getTaskMinutes(sorted[k])
                    /\ segments[k].width.num >= 100
                    /\ segments[k].left.num >= 0
                    /\ segments[k].left.num + segments[k].width.num <= 100 * 1440
            /\ \A k \in 1..(n - 1) :
                    /\ sorted[k].priority <= sorted[k + 1].priority
                    /\ segments[k + 1].left.num
                            = segments[k].left.num + segments[k].width.num
            /\ n >= 1 => segments[1].left.num = 100 * startMinutes

\* The day starts after midnight; the tasks are stored in another order than
\* the sorted one; the first two have segments, the second right after the
\* first, and the third is dropped.
C22_Witness ==
    /\ startMinutes > 0
    /\ Len(tasks) = 3
    /\ tasks[1].id # sortedTasks[1].id
    /\ Len(timelineSegments) = 2
    /\ timelineSegments[1].id = sortedTasks[1].id
    /\ timelineSegments[2].left.num
            = timelineSegments[1].left.num + timelineSegments[1].width.num

---------------------------------------------------------------------------
(* C23 *)

\* C23: dropping a task in the list on screen (dropTask moving the item at
\* place i of sortedTasks to place j) passes reorderTasks a permutation of the
\* live ids when the ids are unique; afterwards sortedTasks is the previous
\* sorted list with that one item taken out of place i and put in at place j,
\* nothing but priorities changed, and the priorities are 1..N.
C23_DropMovesOneItem ==
    (call.op = "dropTask" /\ UniqueIds(before.tasks)) =>
        LET previous == sortTasks(before.tasks)
            sorted == sortedTasks
            n == Len(previous)
            i == call.previousIndex + 1
            j == call.currentIndex + 1
            others == SubSeq(previous, 1, i - 1) \o SubSeq(previous, i + 1, n)
            expected == SubSeq(others, 1, j - 1) \o <<previous[i]>>
                            \o SubSeq(others, j, n - 1)
        IN  /\ IsPermutationOfLive(call.order, before.tasks)
            /\ Len(sorted) = n
            /\ \A k \in 1..n : sorted[k] = [expected[k] EXCEPT !.priority = k]
            /\ PrioritiesOf(tasks) = 1..n

\* The first of three tasks, whose priorities were not 1..3, has just been
\* dropped at the end of the list, or the last at the front.
C23_Witness ==
    /\ call.op = "dropTask"
    /\ UniqueIds(before.tasks)
    /\ Len(before.tasks) = 3
    /\ PrioritiesOf(before.tasks) # 1..3
    /\ {call.previousIndex, call.currentIndex} = {0, 2}
    /\ idList(sortedTasks) # idList(sortTasks(before.tasks))

---------------------------------------------------------------------------
(* C24 *)

\* C24: the task collection and the start offset are independent: addTask,
\* updateTask, removeTask and reorderTasks never change the start offset,
\* setStartMinutes never changes any task, and computing sortedTasks,
\* totalMinutes or the timeline segments changes neither.
C24_TasksAndStartIndependent ==
    /\ call.op \in {"addTask", "updateTask", "removeTask", "reorderTasks"}
            => startMinutes = before.startMinutes
    /\ call.op = "setStartMinutes" => tasks = before.tasks
    /\ call.op = "computeViews"
            => /\ tasks = before.tasks
               /\ startMinutes = before.startMinutes
               /\ call.sortedTasks = sortTasks(before.tasks)

\* The views have just been computed over two tasks that are stored in
\* another order than the sorted one, with a start offset that a caller set.
C24_Witness ==
    /\ call.op = "computeViews"
    /\ Len(tasks) >= 2
    /\ call.sortedTasks # tasks
    /\ Len(call.timelineSegments) >= 1
    /\ startMinutes = 1400

---------------------------------------------------------------------------
(* C25 *)

\* C25: persist-then-restore is a round trip: for any state reachable from an
\* empty registry by addTask, updateTask, removeTask, reorderTasks and
\* setStartMinutes, writing the tasks and the start offset to storage and
\* running restore on that storage gives the same set of task ids, with the
\* same priority, status, isRest flag and effective duration for each, and the
\* same start offset. (restore renumbers tasks whose priorities repeat.)
C25_PersistRestoreRoundTrip ==
    call.op = "reload" =>
        /\ IdsOf(tasks) = IdsOf(before.tasks)
        /\ Len(tasks) = Len(before.tasks)
        /\ \A i \in 1..Len(tasks) : \A j \in 1..Len(before.tasks) :
                tasks[i].id = before.tasks[j].id =>
                    /\ tasks[i].priority = before.tasks[j].priority
                    /\ tasks[i].status = before.tasks[j].status
                    /\ tasks[i].isRest = before.tasks[j].isRest
                    /\ getTaskMinutes(tasks[i]) = getTaskMinutes(before.tasks[j])
        /\ startMinutes = before.startMinutes

====
